---- MODULE Spec2Model ----
(***************************************************************************)
(* drop_worker (src/src/lib.rs): a handle DropWorker<T> owning the Sender  *)
(* of a std::sync::mpsc channel whose Receiver was moved into a spawned    *)
(* worker thread.  The model follows the owner thread (new, send through   *)
(* Deref, clone of the Sender, drop) and the worker threads (the macros    *)
(* try_err! and recv_data! inside the worker function's loop).             *)
(***************************************************************************)
EXTENDS Naturals, Sequences, FiniteSets

\* ---- bounds of the model ----
\* handles created; calls of send and live clones over all handles;
\* re-entries of the destruction path per handle
MaxHandles == 1
MaxSends == 2
MaxClones == 1
MaxReentries == 1

Handles == 1 .. MaxHandles
\* payloads of type T; 5 is the value of the crate example (lib.rs:17)
Values == {5, 7}

\* Shapes of worker function handed to DropWorker::new:
\*   "poll"    loop { try_err!(recv); /* do work */ }          (lib.rs:20-26)
\*   "block"   loop { let data = recv_data!(recv); ... }       (lib.rs:28-33)
\*   "mixed"   loop { try_err!(recv); let d = recv_data!(recv); }
\*   "trivial" a function that returns at once without touching recv
\*   "rec"     loop { let data = recv_data!(recv); assert_eq!(data, 5); }
\*   "spin"    loop { /* do work */ }, which never touches recv
Funcs == {"poll", "block", "mixed", "trivial", "rec", "spin"}
HelperFuncs == {"poll", "block", "mixed"}

VARIABLES
    sender,     \* sender[h]: the field DropWorker.sender: "none", "live", "dropped"
    drops,      \* drops[h]: how many times ManuallyDrop::drop ran on the field
    clones,     \* clones[h]: live clones of the Sender obtained through Deref
    thread,     \* thread[h]: the JoinHandle of the spawned thread
    func,       \* func[h]: the worker function moved into the thread
    pc,         \* pc[h]: where the worker thread of h stands
    queue,      \* queue[h]: the items buffered in the channel of h
    sent,       \* sent[h]: the values for which send returned Ok, in order
    failed,     \* failed[h]: the values handed back in a SendError
    consumed,   \* consumed[h]: what the helpers did with each item taken
    uad,        \* uad[h]: outcome of a send through h after its sender was dropped
    channels,   \* how many times channel() was called
    threads,    \* how many times std::thread::spawn was called
    chan,       \* chan[h]: the channel whose Sender the handle h holds (0: none)
    tid         \* tid[h]: the thread spawned by the new that made h (0: none)

\* what DropWorker::new allocates
ids == <<channels, threads, chan, tid>>

vars == <<sender, drops, clones, thread, func, pc, queue, sent, failed, consumed,
          uad, ids>>

\* ---- the budgets that keep the model finite ----

RECURSIVE SumOver(_, _)
SumOver(f, S) ==
    IF S = {} THEN 0
    ELSE LET x == CHOOSE y \in S : TRUE IN f[x] + SumOver(f, S \ {x})

\* calls of send made so far, and clones alive, over all handles
TotalSends == SumOver([h \in Handles |-> Len(sent[h]) + Len(failed[h])], Handles)
TotalClones == SumOver(clones, Handles)

\* ---- the channel (std::sync::mpsc, lib.rs:41-43) ----

\* variant: a channel that only counts the handle's own Sender
SendersHandleOnly(h) == IF sender[h] = "live" THEN 1 ELSE 0

\* number of live producer endpoints of the channel of h
Senders(h) == (IF sender[h] = "live" THEN 1 ELSE 0) + clones[h]

\* variant: the Receiver only exists once the thread has begun to run
ReceiverAliveOnceRunning(h) ==
    pc[h] \notin {"none", "spawned", "exited", "panicked"}

\* variant: a panic that leaves the Receiver behind
ReceiverAliveAfterPanic(h) == pc[h] \notin {"none", "exited"}

\* the Receiver lives in the closure from spawn until the function returns
\* or unwinds
ReceiverAlive(h) == pc[h] \notin {"none", "exited", "panicked"}

\* variant: a try_recv that reports Empty on a channel without producers
TryRecvResultNeverDisconnected(h) ==
    IF queue[h] # <<>> THEN "Ok" ELSE "Empty"

\* Receiver::try_recv: Ok(item), Err(Empty) or Err(Disconnected)
TryRecvResult(h) ==
    IF queue[h] # <<>> THEN "Ok"
    ELSE IF Senders(h) > 0 THEN "Empty" ELSE "Disconnected"

\* variant: a recv that fails as soon as the producers are gone, buffered
\* items or not
RecvResultEagerErr(h) ==
    IF Senders(h) = 0 THEN "Err"
    ELSE IF queue[h] # <<>> THEN "Ok" ELSE "Blocked"

\* variant: a recv that does not block and fails on an empty channel
RecvResultErrOnEmpty(h) ==
    IF queue[h] # <<>> THEN "Ok" ELSE "Err"

\* variant: a recv that never wakes up on disconnection
RecvResultNoWakeup(h) ==
    IF queue[h] # <<>> THEN "Ok" ELSE "Blocked"

\* Receiver::recv: Ok(item), Err(RecvError), or the caller stays blocked
RecvResult(h) ==
    IF queue[h] # <<>> THEN "Ok"
    ELSE IF Senders(h) > 0 THEN "Blocked" ELSE "Err"

\* ---- the worker function's control flow ----

\* first statement of the function after the thread starts to run it
FirstPc(k) == CASE k = "poll" -> "try"
                [] k = "mixed" -> "try"
                [] k = "block" -> "recv"
                [] k = "trivial" -> "exited"
                [] k = "rec" -> "recv"
                [] k = "spin" -> "work"

\* statement that follows a try_err! which did not return
AfterTry(k) == IF k = "mixed" THEN "recv" ELSE "work"

\* statement that follows a recv_data! which yielded an item
AfterRecv(k) == CASE k = "mixed" -> "try"
                  [] k = "rec" -> "assert"
                  [] OTHER -> "recv"

\* statement that follows the "do work" part of a loop
AfterWork(k) == IF k = "spin" THEN "work" ELSE "try"

Init ==
    /\ sender = [h \in Handles |-> "none"]
    /\ drops = [h \in Handles |-> 0]
    /\ clones = [h \in Handles |-> 0]
    /\ thread = [h \in Handles |-> "none"]
    /\ func = [h \in Handles |-> "none"]
    /\ pc = [h \in Handles |-> "none"]
    /\ queue = [h \in Handles |-> <<>>]
    /\ sent = [h \in Handles |-> <<>>]
    /\ failed = [h \in Handles |-> <<>>]
    /\ consumed = [h \in Handles |-> <<>>]
    /\ uad = [h \in Handles |-> "none"]
    /\ channels = 0
    /\ threads = 0
    /\ chan = [h \in Handles |-> 0]
    /\ tid = [h \in Handles |-> 0]

\* ---- owner thread ----

\* DropWorker::new(func): channel(), spawn, and the JoinHandle bound to
\* _thread is dropped when new returns, which detaches the thread.
new(h, k) ==
    /\ sender[h] = "none"
    /\ \A g \in Handles : g < h => sender[g] # "none"
    /\ sender' = [sender EXCEPT ![h] = "live"]
    /\ thread' = [thread EXCEPT ![h] = "detached"]
    /\ func' = [func EXCEPT ![h] = k]
    /\ pc' = [pc EXCEPT ![h] = "spawned"]
    /\ channels' = channels + 1
    /\ chan' = [chan EXCEPT ![h] = channels + 1]
    /\ threads' = threads + 1
    /\ tid' = [tid EXCEPT ![h] = threads + 1]
    /\ UNCHANGED <<drops, clones, queue, sent, failed, consumed, uad>>

\* Sender::send(v) reached through Deref (via = "handle") or through a clone
send(h, v, via) ==
    /\ \/ via = "handle" /\ sender[h] = "live"
       \/ via = "clone" /\ clones[h] > 0
    /\ TotalSends < MaxSends
    /\ IF ReceiverAlive(h)
       THEN /\ queue' = [queue EXCEPT ![h] = Append(@, v)]
            /\ sent' = [sent EXCEPT ![h] = Append(@, v)]
            /\ UNCHANGED failed
       ELSE /\ failed' = [failed EXCEPT ![h] = Append(@, v)]
            /\ UNCHANGED <<queue, sent>>
    /\ UNCHANGED <<sender, drops, clones, thread, func, pc, consumed, uad, ids>>

\* Sender::clone through Deref, or the clone of a clone
clone(h) ==
    /\ Senders(h) > 0
    /\ TotalClones < MaxClones
    /\ clones' = [clones EXCEPT ![h] = @ + 1]
    /\ UNCHANGED <<sender, drops, thread, func, pc, queue, sent, failed, consumed, uad, ids>>

\* a clone of the Sender goes out of scope
drop_clone(h) ==
    /\ clones[h] > 0
    /\ clones' = [clones EXCEPT ![h] = @ - 1]
    /\ UNCHANGED <<sender, drops, thread, func, pc, queue, sent, failed, consumed, uad, ids>>

\* impl Drop for DropWorker: ManuallyDrop::drop(&mut self.sender) and
\* nothing else; the join of the thread is commented out.
drop(h) ==
    /\ sender[h] = "live"
    /\ sender' = [sender EXCEPT ![h] = "dropped"]
    /\ drops' = [drops EXCEPT ![h] = @ + 1]
    /\ UNCHANGED <<clones, thread, func, pc, queue, sent, failed, consumed, uad, ids>>

\* The body of Drop::drop entered once more for the same handle (for
\* instance through ptr::drop_in_place).  The body has no guard: it calls
\* ManuallyDrop::drop on a field that is already dropped, which is undefined
\* behaviour.  The destructor of the Sender runs a second time; it either
\* goes unnoticed or gives up a producer reference that a clone still holds.
drop_reenter(h, outcome) ==
    /\ sender[h] = "dropped"
    /\ drops[h] <= MaxReentries
    /\ drops' = [drops EXCEPT ![h] = @ + 1]
    /\ \/ outcome = "unnoticed" /\ UNCHANGED clones
       \/ /\ outcome = "releases"
          /\ clones[h] > 0
          /\ clones' = [clones EXCEPT ![h] = @ - 1]
    /\ UNCHANGED <<sender, thread, func, pc, queue, sent, failed, consumed, uad, ids>>

\* A send through the handle after ManuallyDrop::drop ran on its sender and
\* before the handle is gone (a caller that destroys the producer without
\* joining, for instance through ptr::drop_in_place, and then sends).  deref
\* hands out &self.sender without looking at its state, so the call uses a
\* Sender that is already dropped: undefined behaviour.  While the Receiver
\* keeps the channel allocated the call finds it marked disconnected and
\* returns the error; once the Receiver is gone too the channel is freed and
\* the call is a use after free.
send_after_drop(h, v) ==
    /\ sender[h] = "dropped"
    /\ TotalSends < MaxSends
    /\ IF ReceiverAlive(h) \/ clones[h] > 0
       THEN /\ failed' = [failed EXCEPT ![h] = Append(@, v)]
            /\ uad' = [uad EXCEPT ![h] = "Err"]
       ELSE /\ uad' = [uad EXCEPT ![h] = "fault"]
            /\ UNCHANGED failed
    /\ UNCHANGED <<sender, drops, clones, thread, func, pc, queue, sent, consumed, ids>>

\* ---- worker thread ----

\* the spawned thread starts to run func(receiver)
run(h) ==
    /\ pc[h] = "spawned"
    /\ pc' = [pc EXCEPT ![h] = FirstPc(func[h])]
    /\ queue' = [queue EXCEPT ![h] = IF func[h] = "trivial" THEN <<>> ELSE @]
    /\ UNCHANGED <<sender, drops, clones, thread, func, sent, failed, consumed, uad, ids>>

\* variant: a poll that looks at the head item without taking it
try_err_peek(h) ==
    /\ pc[h] = "try"
    /\ LET r == TryRecvResult(h) IN
       /\ pc' = [pc EXCEPT ![h] = IF r = "Disconnected" THEN "returning"
                                   ELSE AfterTry(func[h])]
       /\ IF r = "Ok"
          THEN /\ consumed' = [consumed EXCEPT
                                 ![h] = Append(@, <<"discard", Head(queue[h])>>)]
               /\ UNCHANGED queue
          ELSE UNCHANGED <<queue, consumed>>
    /\ UNCHANGED <<sender, drops, clones, thread, func, sent, failed, uad, ids>>

\* variant: `if let Err(_) = recv.try_recv() { return; }`, which also returns
\* on Err(Empty)
try_err_any_err(h) ==
    /\ pc[h] = "try"
    /\ LET r == TryRecvResult(h) IN
       /\ pc' = [pc EXCEPT ![h] = IF r # "Ok" THEN "returning"
                                   ELSE AfterTry(func[h])]
       /\ IF r = "Ok"
          THEN /\ queue' = [queue EXCEPT ![h] = Tail(@)]
               /\ consumed' = [consumed EXCEPT
                                 ![h] = Append(@, <<"discard", Head(queue[h])>>)]
          ELSE UNCHANGED <<queue, consumed>>
    /\ UNCHANGED <<sender, drops, clones, thread, func, sent, failed, uad, ids>>

\* try_err!(recv): one try_recv; return on Err(Disconnected), otherwise go on
\* (an Ok(item) does not match the pattern, so the item is dropped)
try_err(h) ==
    /\ pc[h] = "try"
    /\ LET r == TryRecvResult(h) IN
       /\ pc' = [pc EXCEPT ![h] = IF r = "Disconnected" THEN "returning"
                                   ELSE AfterTry(func[h])]
       /\ IF r = "Ok"
          THEN /\ queue' = [queue EXCEPT ![h] = Tail(@)]
               /\ consumed' = [consumed EXCEPT
                                 ![h] = Append(@, <<"discard", Head(queue[h])>>)]
          ELSE UNCHANGED <<queue, consumed>>
    /\ UNCHANGED <<sender, drops, clones, thread, func, sent, failed, uad, ids>>

\* the "do work" part of a loop, then back to the head of the loop
work(h) ==
    /\ pc[h] = "work"
    /\ pc' = [pc EXCEPT ![h] = AfterWork(func[h])]
    /\ UNCHANGED <<sender, drops, clones, thread, func, queue, sent, failed, consumed, uad, ids>>

\* variant: a recv_data! that tries again on Err instead of returning
recv_data_retry(h) ==
    /\ pc[h] = "recv"
    /\ LET r == RecvResult(h) IN
       /\ r # "Blocked"
       /\ pc' = [pc EXCEPT ![h] = IF r = "Err" THEN "recv"
                                   ELSE AfterRecv(func[h])]
       /\ IF r = "Ok"
          THEN /\ queue' = [queue EXCEPT ![h] = Tail(@)]
               /\ consumed' = [consumed EXCEPT
                                 ![h] = Append(@, <<"yield", Head(queue[h])>>)]
          ELSE UNCHANGED <<queue, consumed>>
    /\ UNCHANGED <<sender, drops, clones, thread, func, sent, failed, uad, ids>>

\* recv_data!(recv): recv() blocks; Ok(data) yields data, Err returns
recv_data(h) ==
    /\ pc[h] = "recv"
    /\ LET r == RecvResult(h) IN
       /\ r # "Blocked"
       /\ pc' = [pc EXCEPT ![h] = IF r = "Err" THEN "returning"
                                   ELSE AfterRecv(func[h])]
       /\ IF r = "Ok"
          THEN /\ queue' = [queue EXCEPT ![h] = Tail(@)]
               /\ consumed' = [consumed EXCEPT
                                 ![h] = Append(@, <<"yield", Head(queue[h])>>)]
          ELSE UNCHANGED <<queue, consumed>>
    /\ UNCHANGED <<sender, drops, clones, thread, func, sent, failed, uad, ids>>

\* variant: the helper's abort goes back to the head of the function
exit_resume(h) ==
    /\ pc[h] = "returning"
    /\ pc' = [pc EXCEPT ![h] = FirstPc(func[h])]
    /\ UNCHANGED <<sender, drops, clones, thread, func, queue, sent, failed, consumed, uad, ids>>

\* the `return;` of a helper completes: the function's Receiver is dropped
\* and the thread terminates
exit(h) ==
    /\ pc[h] = "returning"
    /\ pc' = [pc EXCEPT ![h] = "exited"]
    /\ queue' = [queue EXCEPT ![h] = <<>>]
    /\ UNCHANGED <<sender, drops, clones, thread, func, sent, failed, consumed, uad, ids>>

\* assert_eq!(data, 5) on the item recv_data! yielded: a different value
\* panics, the unwinding drops the Receiver and the thread terminates
assert_eq(h) ==
    /\ pc[h] = "assert"
    /\ LET data == consumed[h][Len(consumed[h])][2] IN
       IF data = 5
       THEN /\ pc' = [pc EXCEPT ![h] = "recv"]
            /\ UNCHANGED queue
       ELSE /\ pc' = [pc EXCEPT ![h] = "panicked"]
            /\ queue' = [queue EXCEPT ![h] = <<>>]
    /\ UNCHANGED <<sender, drops, clones, thread, func, sent, failed, consumed, uad, ids>>

Worker(h) ==
    run(h) \/ try_err(h) \/ work(h) \/ recv_data(h) \/ assert_eq(h) \/ exit(h)

Next ==
    \/ \E h \in Handles, k \in Funcs : new(h, k)
    \/ \E h \in Handles, v \in Values, via \in {"handle", "clone"} : send(h, v, via)
    \/ \E h \in Handles : clone(h)
    \/ \E h \in Handles : drop_clone(h)
    \/ \E h \in Handles : drop(h)
    \/ \E h \in Handles : run(h)
    \/ \E h \in Handles : try_err(h)
    \/ \E h \in Handles : work(h)
    \/ \E h \in Handles : recv_data(h)
    \/ \E h \in Handles : assert_eq(h)
    \/ \E h \in Handles : exit(h)

Spec == Init /\ [][Next]_vars

\* the scheduler runs every thread that can take a step
FairSpec == Spec /\ \A h \in Handles : WF_vars(Worker(h))

\* the program together with a caller that re-enters the destruction path
ReenterSpec ==
    Init /\ [][Next \/ \E h \in Handles, o \in {"unnoticed", "releases"} :
                          drop_reenter(h, o)]_vars

\* the program together with a caller that sends through a handle whose
\* producer endpoint is already destroyed
UseAfterDropSpec ==
    Init /\ [][Next \/ \E h \in Handles, v \in Values : send_after_drop(h, v)]_vars

TypeOK ==
    /\ \A h \in Handles : sender[h] \in {"none", "live", "dropped"}
    /\ \A h \in Handles : clones[h] \in 0 .. MaxClones
    /\ \A h \in Handles : pc[h] \in {"none", "spawned", "try", "work", "recv",
                                      "assert", "returning", "exited", "panicked"}
\* ---- reading the logs ----

\* the values of the items a worker took from its channel, in order
Vals(log) == [i \in 1 .. Len(log) |-> log[i][2]]

\* what the helper did with each of them: "yield" or "discard"
Hows(log) == {log[i][1] : i \in 1 .. Len(log)}

\* every producer endpoint of the channel of h has been destroyed
Disconnected(h) == sender[h] = "dropped" /\ clones[h] = 0

\* ---- C1 ----
\* C1 (join before return): whenever drop has returned for a handle, the
\* thread spawned for that handle has terminated.
JoinBeforeReturn ==
    \A h \in Handles : sender[h] = "dropped" => pc[h] = "exited"

\* ---- C2 ----
\* C2 (teardown order): a completed drop has performed both steps, the
\* destruction of the Sender and then the join of the thread.
TeardownBothSteps ==
    \A h \in Handles : drops[h] > 0 => thread[h] = "joined"
\* ---- C3 ----
\* C3 (disconnect visibility, blocking helper): once every producer of the
\* channel is gone, a worker whose loop uses recv_data! leaves its receive
\* and its thread terminates.
DisconnectVisibility ==
    \A h \in Handles :
        (func[h] \in {"block", "mixed"} /\ Disconnected(h)) ~> (pc[h] = "exited")

\* a blocking worker that found the channel disconnected and has terminated
DisconnectVisibilityWitness ==
    \E h \in Handles :
        func[h] = "block" /\ Disconnected(h) /\ pc[h] = "exited"

\* ---- C4 ----
\* C4 (scenario A): a polling worker whose handle is dropped right after
\* construction, before or after the thread first runs, terminates.
ScenarioA ==
    \A h \in Handles :
        (func[h] = "poll" /\ Disconnected(h)) ~> (pc[h] = "exited")

\* the handle of a polling worker is dropped before the thread first ran
ScenarioAWitness ==
    \E h \in Handles :
        /\ func[h] = "poll" /\ Disconnected(h) /\ pc[h] = "spawned"
        /\ sent[h] = <<>> /\ failed[h] = <<>>

\* ---- C5 ----
\* C5 (delivery through recv_data!): a blocking worker is yielded the values
\* sent with success, each once and in the order sent, and it returns only
\* when all of them have been yielded.
BlockingDelivery ==
    \A h \in Handles :
        func[h] = "block" =>
            /\ Hows(consumed[h]) \subseteq {"yield"}
            /\ Vals(consumed[h]) \o queue[h] = sent[h]
            /\ pc[h] \in {"returning", "exited"} => Vals(consumed[h]) = sent[h]

\* send(5), drop, and the worker has seen exactly the item 5 and returned
BlockingDeliveryWitness ==
    \E h \in Handles :
        /\ func[h] = "block" /\ sender[h] = "dropped" /\ pc[h] = "exited"
        /\ sent[h] = <<5>> /\ consumed[h] = <<<<"yield", 5>>>>
\* ---- C6 ----
\* the worker of h executes its try_err!
TryStep(h) == pc[h] = "try" /\ pc'[h] # "try"

\* C6 (try_err! step): a poll is never blocked; on an empty, connected
\* channel the worker goes on and the channel is unchanged; the function
\* returns exactly when the channel is empty and without producers.
TryErrSemantics ==
    /\ [](\A h \in Handles : pc[h] = "try" => ENABLED try_err(h))
    /\ [][\A h \in Handles : TryStep(h) =>
            /\ (queue[h] = <<>> /\ Senders(h) > 0) =>
                    /\ pc'[h] = AfterTry(func[h])
                    /\ queue'[h] = queue[h]
                    /\ consumed'[h] = consumed[h]
            /\ pc'[h] = "returning" <=> (queue[h] = <<>> /\ Senders(h) = 0)
            /\ pc'[h] # "returning" => pc'[h] = AfterTry(func[h])
            /\ pc'[h] # "exited"]_vars

\* a polling worker that polled an empty, connected channel and went on
TryErrSemanticsWitness ==
    \E h \in Handles :
        /\ func[h] = "poll" /\ pc[h] = "work" /\ sender[h] = "live"
        /\ sent[h] = <<>> /\ consumed[h] = <<>>

\* ---- C7 ----
\* C7 (discard on poll): a poll of a channel holding items takes the head
\* item off the channel and discards it, the worker goes on, and no item
\* is handed out a second time: what the helpers took, followed by what
\* is still buffered, is what was sent.
DiscardOnPoll ==
    /\ [](\A h \in Handles : func[h] \in HelperFuncs =>
            Vals(consumed[h]) \o queue[h] = sent[h])
    /\ [][\A h \in Handles : (TryStep(h) /\ queue[h] # <<>>) =>
            /\ queue'[h] = Tail(queue[h])
            /\ Len(queue'[h]) = Len(queue[h]) - 1
            /\ consumed'[h] = Append(consumed[h], <<"discard", Head(queue[h])>>)
            /\ pc'[h] = AfterTry(func[h])]_vars

\* a worker that uses both helpers discarded the first item in its poll and
\* was yielded the second one by recv_data!
DiscardOnPollWitness ==
    \E h \in Handles :
        /\ func[h] = "mixed"
        /\ sent[h] = <<5, 7>>
        /\ consumed[h] = <<<<"discard", 5>>, <<"yield", 7>>>>

\* ---- C8 ----
\* a send on the channel of h returns
SendStep(h) ==
    Len(sent'[h]) + Len(failed'[h]) > Len(sent[h]) + Len(failed[h])

\* C8 (send result): a send through a live handle is never blocked; it
\* succeeds and appends the value while the worker's Receiver exists, also
\* before the thread first ran; it fails exactly when the worker function
\* has returned, the value is then not enqueued, and the handle is as
\* usable and droppable as before.
SendResult ==
    /\ [](\A h \in Handles :
            (sender[h] = "live" /\ TotalSends < MaxSends) =>
                \A v \in Values : ENABLED send(h, v, "handle"))
    /\ [](\A h \in Handles : sender[h] = "live" => ENABLED drop(h))
    /\ [][\A h \in Handles : SendStep(h) =>
            /\ sender'[h] = sender[h] /\ clones'[h] = clones[h]
            /\ IF pc[h] \notin {"exited", "panicked"}
               THEN /\ \E v \in Values :
                         /\ sent'[h] = Append(sent[h], v)
                         /\ queue'[h] = Append(queue[h], v)
                    /\ failed'[h] = failed[h]
               ELSE /\ \E v \in Values : failed'[h] = Append(failed[h], v)
                    /\ sent'[h] = sent[h]
                    /\ queue'[h] = queue[h]
                    /\ consumed'[h] = consumed[h]]_vars

\* a send through a live handle came back with an error because the worker
\* function had returned, and an earlier send succeeded before the thread ran
SendResultWitness ==
    \E h \in Handles :
        /\ sender[h] = "live" /\ pc[h] = "exited" /\ func[h] = "trivial"
        /\ Len(sent[h]) = 1 /\ Len(failed[h]) = 1

\* ---- C9 ----
\* C9 (disconnection is irreversible): once the last producer is destroyed
\* the channel stays without producers, no further send succeeds, and a
\* receive on the empty channel is not blocked and returns from the worker.
DisconnectIrreversible ==
    /\ [](\A h \in Handles :
            (Disconnected(h) /\ queue[h] = <<>> /\ pc[h] = "recv") =>
                ENABLED recv_data(h))
    /\ [][\A h \in Handles : Disconnected(h) =>
            /\ Disconnected(h)'
            /\ sent'[h] = sent[h] /\ failed'[h] = failed[h]
            /\ (pc[h] \in {"recv", "try"} /\ queue[h] = <<>> /\ pc'[h] # pc[h])
                    => pc'[h] = "returning"]_vars

\* a worker standing in recv on an empty channel, after items were sent and
\* the last producer was destroyed
DisconnectIrreversibleWitness ==
    \E h \in Handles :
        /\ Disconnected(h) /\ pc[h] = "recv" /\ queue[h] = <<>>
        /\ sent[h] # <<>> /\ drops[h] = 1
\* ---- C10 ----
\* C10 (no double teardown): the Sender of a handle is destroyed once; a
\* second entry into the destruction path does not destroy it again and
\* the thread is not joined twice.
NoDoubleTeardown ==
    \A h \in Handles : drops[h] <= 1 /\ thread[h] \in {"none", "detached", "joined"}
\* ---- C11 ----
\* C11 (send after the handle's own disconnection): a send through a handle
\* that has already destroyed its producer endpoint yields the disconnected
\* error.
SendAfterDropFails ==
    \A h \in Handles :
        uad[h] \in {"none", "Err"}
\* ---- C12 ----
\* C12 (one-to-one construction): every new made one fresh channel and one
\* thread; an existing handle holds the Sender of its own channel and the
\* join token of its own thread, which is live or completed; no two handles
\* share a channel or a thread.
OneToOneConstruction ==
    /\ channels = Cardinality({h \in Handles : sender[h] # "none"})
    /\ threads = channels
    /\ \A h \in Handles : sender[h] = "live" =>
            /\ chan[h] \in 1 .. channels /\ tid[h] \in 1 .. threads
            /\ pc[h] # "none"
            /\ thread[h] = "held"
    /\ \A g, h \in Handles :
            (g # h /\ sender[g] # "none" /\ sender[h] # "none") =>
                chan[g] # chan[h] /\ tid[g] # tid[h]

\* ---- C13 ----
\* C13 (a worker that never receives blocks the teardown): the drop of a
\* handle whose worker loops without any receive never returns.
SpinBlocksDrop ==
    \A h \in Handles : func[h] = "spin" => sender[h] # "dropped"
WState(p) ==
    CASE p \in {"spawned", "try", "work", "recv"} -> "Running"
      [] p = "returning" -> "DisconnectedPendingExit"
      [] p = "exited" -> "Exited"
      [] OTHER -> "None"

\* C15 (worker state machine): a worker that leaves only through the
\* helpers is Running, Disconnected-Pending-Exit or Exited; it leaves
\* Running only when a helper finds the channel disconnected, goes from
\* there to Exited without taking another item, and stays Exited.
WorkerStateMachine ==
    /\ [](\A h \in Handles : (func[h] \in HelperFuncs) =>
            /\ WState(pc[h]) # "None"
            /\ pc[h] = "returning" => ENABLED exit(h))
    /\ [][\A h \in Handles : (func[h] \in HelperFuncs) =>
            LET a == WState(pc[h])
                b == WState(pc'[h])
            IN  /\ a # b =>
                     \/ /\ a = "Running" /\ b = "DisconnectedPendingExit"
                        /\ pc[h] \in {"try", "recv"}
                        /\ queue[h] = <<>> /\ Senders(h) = 0
                     \/ a = "DisconnectedPendingExit" /\ b = "Exited"
                /\ a = "DisconnectedPendingExit" =>
                     consumed'[h] = consumed[h] /\ queue'[h] = queue[h]
                /\ a = "Exited" =>
                     /\ pc'[h] = "exited"
                     /\ consumed'[h] = consumed[h]
                     /\ queue'[h] = <<>>]_vars

\* a worker whose helper has found the disconnection and has not yet exited
WorkerStateMachineWitness ==
    \E h \in Handles :
        func[h] \in HelperFuncs /\ pc[h] = "returning" /\ consumed[h] # <<>>

\* ---- C16 ----
\* C16 (no spurious stop): a worker that leaves only through the helpers
\* is aborted by them only after the handle's producer endpoint has been
\* destroyed.
NoSpuriousStop ==
    \A h \in Handles :
        (func[h] \in HelperFuncs /\ pc[h] \in {"returning", "exited"}) =>
            sender[h] = "dropped"

\* a polling worker that discarded an item and then left through try_err!
NoSpuriousStopWitness ==
    \E h \in Handles :
        func[h] = "poll" /\ pc[h] = "exited" /\ consumed[h] # <<>>

====
